---- MODULE Spec2Model ----
(***************************************************************************)
(* Serverless web monitoring: the analyzer function (functions/analyzer),  *)
(* the alerter function (functions/alerter) and the storage, document and  *)
(* messaging services that connect them.                                   *)
(*                                                                         *)
(* Python values are modelled as follows.                                  *)
(*   - str: a TLA+ string; + and format() are \o.                          *)
(*   - dict: a function whose DOMAIN is the set of keys.                   *)
(*   - a JSON number: an integer count of 10^-4 seconds (four decimal      *)
(*     places), so that (a - b) * 1000 is in general not a whole number;   *)
(*     binary floating point rounding is not modelled.                     *)
(*   - a call that may raise: Return(v) or Raise(kind).                    *)
(*   - a text to be parsed as JSON: NotJson, or Text(obj) for the text     *)
(*     that json.loads turns into obj.                                     *)
(***************************************************************************)
EXTENDS Integers, Sequences, FiniteSets, Bags, TLC

VARIABLES
  environ,          \* os.environ of the deployed functions
  clock,            \* the wall clock, in seconds
  objects,          \* the metrics bucket: object name -> object
  storage_events,   \* storage-create events not yet delivered to analyze
  documents,        \* the Firestore database: collection -> document id -> record
  document_events,  \* document-change events not yet delivered to generate_alert
  published,        \* the messages published to Pub/Sub, in order
  last,             \* what the latest handler invocation did and raised
  input_file,       \* the unit tests' input_file fixture
  test_result       \* what the unit test's call returned or raised

vars == <<environ, clock, objects, storage_events, documents,
          document_events, published, last, input_file, test_result>>

pipeline_vars == <<environ, clock, objects, storage_events, documents,
                   document_events, published, last>>

----------------------------------------------------------------------------
(* Python building blocks *)

None == "None"

Return(v) == [exc |-> None, val |-> v]

Raise(kind) == [exc |-> kind]

Raised(r) == r.exc # None

NotJson == [json |-> FALSE]

Text(obj) == [json |-> TRUE, object |-> obj]

EmptyDict == [k \in {} |-> None]

json_loads_lenient(s) == IF s.json THEN Return(s.object) ELSE Return(EmptyDict)

json_loads(s) == IF s.json THEN Return(s.object) ELSE Raise("JSONDecodeError")

\* d[k]
getitem(d, k) == IF k \in DOMAIN d THEN Return(d[k]) ELSE Raise("KeyError")

Scale == 10^4

Abs(x) == IF x < 0 THEN -x ELSE x

int_floor(num, den) == num \div den

\* int(x) of the float x = num / den: the fraction is cut off, toward zero
int_of_float(num, den) ==
  IF num >= 0 THEN num \div den ELSE -((-num) \div den)

Last(S) == CHOOSE i \in S : \A j \in S : j <= i

First(S) == CHOOSE i \in S : \A j \in S : i <= j

dict_zip_first(keys, values) ==
  [k \in {keys[i] : i \in DOMAIN keys} |->
     values[First({i \in DOMAIN keys : keys[i] = k})]]

\* dict(zip(keys, values)): a later pair replaces an earlier one with its key
dict_zip(keys, values) ==
  [k \in {keys[i] : i \in DOMAIN keys} |->
     values[Last({i \in DOMAIN keys : keys[i] = k})]]

----------------------------------------------------------------------------
(* functions/analyzer/main.py: the parse block *)

calc_event_time(metrics_kv, event_name) ==
  LET event == getitem(metrics_kv, event_name)
      start == getitem(metrics_kv, "NavigationStart")
  IN IF Raised(event) THEN event
     ELSE IF Raised(start) THEN start
     ELSE Return(int_of_float((event.val - start.val) * 1000, Scale))

parse_metrics(metrics_str) ==
  LET metrics_obj == json_loads(metrics_str) IN
  IF Raised(metrics_obj) THEN metrics_obj
  ELSE IF Raised(getitem(metrics_obj.val, "metrics"))
    THEN getitem(metrics_obj.val, "metrics")
  ELSE
    LET metrics == metrics_obj.val["metrics"]
        keys    == [i \in DOMAIN metrics |-> metrics[i].name]
        values  == [i \in DOMAIN metrics |-> metrics[i].value]
        kv      == dict_zip(keys, values)
        dcl     == calc_event_time(kv, "DomContentLoaded")
        fmp     == calc_event_time(kv, "FirstMeaningfulPaint")
        total   == getitem(kv, "JSHeapTotalSize")
        used    == getitem(kv, "JSHeapUsedSize")
    IN IF Raised(dcl) THEN dcl
       ELSE IF Raised(fmp) THEN fmp
       ELSE IF Raised(total) THEN total
       ELSE IF Raised(used) THEN used
       ELSE Return([DomContentLoaded     |-> dcl.val,
                    FirstMeaningfulPaint |-> fmp.val,
                    JSHeapTotalSize      |-> total.val,
                    JSHeapUsedSize       |-> used.val])

TwoDigits(n) == IF n < 10 THEN "0" \o ToString(n) ELSE ToString(n)

\* datetime.isoformat() of the instant t seconds after 2019-03-07 00:00:00
isoformat(t) == "2019-03-07T00:00:" \o TwoDigits(t)

gcs_filename_swapped(bucket, name) == "gs://" \o name \o "/" \o bucket

\* 'gs://{}/{}'.format(bucket, name)
gcs_filename(bucket, name) == "gs://" \o bucket \o "/" \o name

threshold_status_ge(time_meaningful_paint, max_time_meaningful_paint) ==
  IF time_meaningful_paint >= max_time_meaningful_paint THEN "FAIL" ELSE "PASS"

\* check whether page performance is within threshold
threshold_status(time_meaningful_paint, max_time_meaningful_paint) ==
  IF time_meaningful_paint > max_time_meaningful_paint THEN "FAIL" ELSE "PASS"

analyze_metrics(data, metrics, max_time_meaningful_paint, utcnow) ==
  LET calculated == parse_metrics(metrics)
      metadata   == getitem(data, "metadata")
  IN
  IF Raised(calculated) THEN calculated
  ELSE IF Raised(metadata) THEN metadata
  ELSE IF Raised(getitem(metadata.val, "pageUrl"))
    THEN getitem(metadata.val, "pageUrl")
  ELSE
    Return([metrics            |-> calculated.val,
            input_file         |-> gcs_filename(data.bucket, data.name),
            page_url           |-> metadata.val.pageUrl,
            fetch_timestamp    |-> data.timeCreated,
            analysis_timestamp |-> isoformat(utcnow) \o "Z",
            status             |->
              threshold_status(calculated.val.FirstMeaningfulPaint,
                               max_time_meaningful_paint)])

----------------------------------------------------------------------------
(* functions/tests/analyzer_test.py: the unit tests, over bounded inputs *)

MaxExtra == 1

NavigationStartValues == {0, 15}

DomContentLoadedValues == {7}

FirstMeaningfulPaintValues == {0, 7, 15, 22}

JSHeapTotalSizeValues == {1000, 2000}

JSHeapUsedSizeValues == {500}

\* the required samples, in the order the tracer writes them
RequiredNames ==
  <<"NavigationStart", "DomContentLoaded", "FirstMeaningfulPaint",
    "JSHeapTotalSize", "JSHeapUsedSize">>

Required == {RequiredNames[i] : i \in DOMAIN RequiredNames}

SampleNames == Required \cup {"Timestamp"}

ValuesOf(name) ==
  CASE name = "NavigationStart"      -> NavigationStartValues
    [] name = "DomContentLoaded"     -> DomContentLoadedValues
    [] name = "FirstMeaningfulPaint" -> FirstMeaningfulPaintValues
    [] name = "JSHeapTotalSize"      -> JSHeapTotalSizeValues
    [] name = "JSHeapUsedSize"       -> JSHeapUsedSizeValues

AllValues == UNION {ValuesOf(n) : n \in Required}

Sample(name, value) == [name |-> name, value |-> value]

\* the samples of the names in DOMAIN f, with the values f gives them
SamplesOf(f) ==
  LET names == SelectSeq(RequiredNames, LAMBDA n : n \in DOMAIN f)
  IN [i \in DOMAIN names |-> Sample(names[i], f[names[i]])]

BaseSamples ==
  {SamplesOf(f) : f \in UNION {
     {g \in [present -> AllValues] : \A n \in present : g[n] \in ValuesOf(n)} :
       present \in SUBSET Required}}

\* further samples a payload may carry, before or after the others
ExtraSamples == {Sample(n, 7) : n \in SampleNames}

SeqsUpTo(S, n) == UNION {[1..k -> S] : k \in 0..n}

\* at most MaxExtra further samples in all, some before and some after
Extras ==
  {fb \in SeqsUpTo(ExtraSamples, MaxExtra) \X SeqsUpTo(ExtraSamples, MaxExtra) :
     Len(fb[1]) + Len(fb[2]) <= MaxExtra}

SampleSeqs == {fb[1] \o base \o fb[2] : fb \in Extras, base \in BaseSamples}

Payloads ==
  {NotJson, Text([url |-> "https://www.testtest.com"])}
    \cup {Text([metrics |-> s]) : s \in SampleSeqs}

PageUrls == {"https://www.testtest.com"}

\* the event's timeCreated for an object created at instant t
timeCreated(t) == "2019-03-07 00:00:" \o TwoDigits(t) \o "Z"

\* the payload of a storage-create event; metadata is there when the object has some
TriggerData(bucket, name, t, metadata) ==
  IF metadata = EmptyDict
    THEN [bucket |-> bucket, name |-> name, timeCreated |-> timeCreated(t)]
    ELSE [bucket |-> bucket, name |-> name, timeCreated |-> timeCreated(t),
          metadata |-> metadata]

Metadatas == {EmptyDict} \cup {[pageUrl |-> u] : u \in PageUrls}

trigger_data ==
  {TriggerData("gcsBucket", "gcsObjectName", 0, m) : m \in Metadatas}
    \cup {TriggerData("metrics", "a.json", 59, [pageUrl |-> u]) : u \in PageUrls}

MaxTimes == {0, 1}

NoTest == [test |-> "none"]

test_parse_metrics ==
  /\ test_result = NoTest
  /\ test_result' = [test |-> "parse_metrics",
                     ret  |-> parse_metrics(input_file)]
  /\ UNCHANGED <<input_file, pipeline_vars>>

test_analyze_metrics ==
  /\ test_result = NoTest
  /\ \E data \in trigger_data, max_time \in MaxTimes :
       test_result' = [test     |-> "analyze_metrics",
                       data     |-> data,
                       max_time |-> max_time,
                       ret      |-> analyze_metrics(data, input_file, max_time, clock)]
  /\ UNCHANGED <<input_file, pipeline_vars>>

----------------------------------------------------------------------------
(* The deployment: environment, bucket, Firestore, Pub/Sub *)

MaxObjects == 2

\* the instants, in seconds after 2019-03-07 00:00:00, at which a run takes place
Instants == {0, 59}

METRICS_BUCKET == "metrics"

\* the name of the k-th object created in the bucket
ObjectName(k) == "metrics-" \o ToString(k) \o ".json"

Environments ==
  {[GCP_PROJECT |-> "my-project", ALERT_TOPIC |-> "alerts"] @@ t @@ c :
     t \in {EmptyDict} \cup {[MAX_TIME_MEANINGFUL_PAINT |-> v] : v \in {"1", "1.5"}},
     c \in {EmptyDict, [METRICS_COLLECTION |-> "page-metrics"]}}

\* os.environ.get(key)
environ_get(key) == IF key \in DOMAIN environ THEN environ[key] ELSE None

Digits == <<"0", "1", "2", "3", "4", "5", "6", "7", "8", "9">>

IsDigit(c) == \E d \in DOMAIN Digits : Digits[d] = c

DigitValue(c) == (CHOOSE d \in DOMAIN Digits : Digits[d] = c) - 1

RECURSIVE DecimalValue(_)
DecimalValue(s) ==
  IF Len(s) = 0 THEN 0
  ELSE 10 * DecimalValue(SubSeq(s, 1, Len(s) - 1))
         + DigitValue(SubSeq(s, Len(s), Len(s)))

AllDigits(s) == Len(s) > 0 /\ \A i \in 1..Len(s) : IsDigit(SubSeq(s, i, i))

\* int(x) of None or of a str
int_of_str(x) ==
  IF x = None THEN Raise("TypeError")
  ELSE IF AllDigits(x) THEN Return(DecimalValue(x))
  ELSE IF Len(x) > 1 /\ SubSeq(x, 1, 1) = "-" /\ AllDigits(SubSeq(x, 2, Len(x)))
    THEN Return(-DecimalValue(SubSeq(x, 2, Len(x))))
  ELSE Raise("ValueError")

\* the content of an object whose samples are those of f
MetricsFile(f) == Text([metrics |-> SamplesOf(f)])

Contents ==
  {NotJson}
  \cup {MetricsFile([NavigationStart |-> 0, DomContentLoaded |-> 7,
                     FirstMeaningfulPaint |-> fmp,
                     JSHeapTotalSize |-> 1000, JSHeapUsedSize |-> 500]) :
          fmp \in {15, 22}}

\* a document as the Firestore trigger delivers it: typed fields
firestore_value(v) ==
  [stringValue |-> v]

firestore_fields(document) ==
  [k \in DOMAIN document |->
     IF k = "metrics"
       THEN [mapValue |-> [fields |->
               [m \in DOMAIN document[k] |-> [integerValue |-> document[k][m]]]]]
       ELSE firestore_value(document[k])]

document_name(path) ==
  "projects/" \o environ_get("GCP_PROJECT")
    \o "/databases/(default)/documents/" \o path[1] \o "/" \o path[2]

DocumentEvent(path, document) ==
  [value |-> [name |-> document_name(path), fields |-> firestore_fields(document)]]

----------------------------------------------------------------------------
(* functions/analyzer/main.py: the entry point *)

\* blob.download_as_string() returns the content of the object, or raises
\* when the service does not serve it
get_gcs_file_contents(data) ==
  {Raise("NotFound")}
    \cup {Return(objects[n].content) : n \in {data.name} \cap DOMAIN objects}

persist_by_input_file(analysis_result, document_id) ==
  LET collection_name == environ_get("METRICS_COLLECTION")
      path == <<collection_name, analysis_result.input_file>>
  IN IF collection_name = None
       THEN [exc |-> "AttributeError", documents |-> documents]
     ELSE IF path \in DOMAIN documents
       THEN [exc |-> "AlreadyExists", documents |-> documents]
     ELSE [exc |-> None, val |-> path,
           documents |-> documents @@ (path :> analysis_result)]

\* collection.add(analysis_result, document_id=document_id) creates the document
\* and fails when there is one with that id
persist(analysis_result, document_id) ==
  LET collection_name == environ_get("METRICS_COLLECTION")
      path == <<collection_name, document_id>>
  IN IF collection_name = None
       THEN [exc |-> "AttributeError", documents |-> documents]
     ELSE IF path \in DOMAIN documents
       THEN [exc |-> "AlreadyExists", documents |-> documents]
     ELSE [exc |-> None, val |-> path,
           documents |-> documents @@ (path :> analysis_result)]

Outcome(exc, calls, docs) == [exc |-> exc, calls |-> calls, documents |-> docs]

\* analyze with the configuration read and checked before anything else
analyze_outcome_fail_fast(data, page_metrics) ==
  LET max_time_meaningful_paint ==
        int_of_str(environ_get("MAX_TIME_MEANINGFUL_PAINT"))
  IN
  IF Raised(max_time_meaningful_paint) \/ environ_get("METRICS_COLLECTION") = None
    THEN Outcome("TypeError", <<"os.environ.get">>, documents)
  ELSE IF Raised(page_metrics)
    THEN Outcome(page_metrics.exc,
                 <<"os.environ.get", "get_gcs_file_contents">>, documents)
  ELSE
    LET analysis_result ==
          analyze_metrics(data, page_metrics.val,
                          max_time_meaningful_paint.val, clock)
    IN IF Raised(analysis_result)
         THEN Outcome(analysis_result.exc,
                      <<"os.environ.get", "get_gcs_file_contents",
                        "analyze_metrics">>, documents)
       ELSE
         LET docref == persist(analysis_result.val, data.name)
         IN Outcome(docref.exc,
                    <<"os.environ.get", "get_gcs_file_contents",
                      "analyze_metrics", "persist">>, docref.documents)

\* analyze with a failed analysis recorded instead of raised
analyze_outcome_swallow(data, page_metrics) ==
  LET max_time_meaningful_paint ==
        int_of_str(environ_get("MAX_TIME_MEANINGFUL_PAINT"))
  IN
  IF Raised(page_metrics)
    THEN Outcome(page_metrics.exc, <<"get_gcs_file_contents">>, documents)
  ELSE IF Raised(max_time_meaningful_paint)
    THEN Outcome(max_time_meaningful_paint.exc,
                 <<"get_gcs_file_contents", "os.environ.get">>, documents)
  ELSE
    LET analysis_result ==
          analyze_metrics(data, page_metrics.val,
                          max_time_meaningful_paint.val, clock)
        docref ==
          persist(IF Raised(analysis_result)
                    THEN [input_file |-> gcs_filename(data.bucket, data.name),
                          status |-> "FAIL"]
                    ELSE analysis_result.val, data.name)
    IN Outcome(docref.exc,
               <<"get_gcs_file_contents", "os.environ.get",
                 "analyze_metrics", "persist">>, docref.documents)

\* what one invocation of analyze raises, the calls it makes in order, and the
\* documents it leaves
analyze_outcome(data, page_metrics) ==
  LET max_time_meaningful_paint ==
        int_of_str(environ_get("MAX_TIME_MEANINGFUL_PAINT"))
  IN
  IF Raised(page_metrics)
    THEN Outcome(page_metrics.exc, <<"get_gcs_file_contents">>, documents)
  ELSE IF Raised(max_time_meaningful_paint)
    THEN Outcome(max_time_meaningful_paint.exc,
                 <<"get_gcs_file_contents", "os.environ.get">>, documents)
  ELSE
    LET analysis_result ==
          analyze_metrics(data, page_metrics.val,
                          max_time_meaningful_paint.val, clock)
    IN IF Raised(analysis_result)
         THEN Outcome(analysis_result.exc,
                      <<"get_gcs_file_contents", "os.environ.get",
                        "analyze_metrics">>, documents)
       ELSE
         LET docref == persist(analysis_result.val, data.name)
         IN Outcome(docref.exc,
                    <<"get_gcs_file_contents", "os.environ.get",
                      "analyze_metrics", "persist">>, docref.documents)

\* the events Firestore raises for the documents that docs_after has and
\* docs_before has not
Changes(docs_before, docs_after) ==
  {DocumentEvent(path, docs_after[path]) :
     path \in DOMAIN docs_after \ DOMAIN docs_before}

\* one delivery of a storage-create event to the function
analyze ==
  \E data \in storage_events :
  \E page_metrics \in get_gcs_file_contents(data) :
    LET outcome == analyze_outcome(data, page_metrics) IN
    /\ storage_events' = storage_events \ {data}
    /\ documents' = outcome.documents
    /\ document_events' = document_events \cup Changes(documents, outcome.documents)
    /\ last' = [fn |-> "analyze", data |-> data, page_metrics |-> page_metrics,
                exc |-> outcome.exc, calls |-> outcome.calls]
    /\ UNCHANGED <<environ, clock, objects, published,
                   input_file, test_result>>

----------------------------------------------------------------------------
(* functions/alerter/main.py *)

\* sub in s
contains(sub, s) ==
  \E i \in 1..(Len(s) - Len(sub) + 1) : SubSeq(s, i, i + Len(sub) - 1) = sub

\* json.dumps(obj).encode('utf-8')
json_dumps_encode(obj) == [encoding |-> "utf-8", text |-> Text(obj)]

\* data.decode() of the bytes, then json.loads
decode_json_loads(data) == json_loads(data.text)

fqtn(project, topic) == "projects/" \o project \o "/topics/" \o topic

Message(topic, data) == [topic |-> topic, data |-> data]

publish(topic, data) == published (+) SetToBag({Message(topic, data)})

AlertOutcome(exc, calls, msgs) == [exc |-> exc, calls |-> calls, published |-> msgs]

is_failed_exact(status) == status = "FAIL"

\* 'FAIL' in status
is_failed(status) == contains("FAIL", status)

generate_alert_outcome_always(data) ==
  AlertOutcome(None, <<"publish">>,
               publish(fqtn(environ_get("GCP_PROJECT"), environ_get("ALERT_TOPIC")),
                       json_dumps_encode(data.value)))

\* what one invocation of generate_alert raises, the calls it makes and the
\* messages the topic holds after it
generate_alert_outcome(data) ==
  LET doc_fields == data.value.fields
      status     == getitem(doc_fields, "status")
  IN IF Raised(status) THEN AlertOutcome(status.exc, <<>>, published)
     ELSE IF is_failed(status.val.stringValue)
       THEN LET project == environ_get("GCP_PROJECT")
                topic   == environ_get("ALERT_TOPIC")
                msg     == json_dumps_encode(data.value)
            IN AlertOutcome(None, <<"publish">>, publish(fqtn(project, topic), msg))
     ELSE AlertOutcome(None, <<>>, published)

\* one delivery of a document-change event to the function
generate_alert ==
  \E data \in document_events :
    LET outcome == generate_alert_outcome(data) IN
    /\ document_events' = document_events \ {data}
    /\ published' = outcome.published
    /\ last' = [fn |-> "generate_alert", data |-> data,
                exc |-> outcome.exc, calls |-> outcome.calls]
    /\ UNCHANGED <<environ, clock, objects, storage_events, documents,
                   input_file, test_result>>

----------------------------------------------------------------------------
(* What triggers the functions *)

\* what is uploaded: a metrics file with the page's URL as metadata, or bare
Uploads ==
  {[content |-> c, metadata |-> [pageUrl |-> u]] : c \in Contents, u \in PageUrls}
    \cup {[content |-> c, metadata |-> EmptyDict] :
            c \in {MetricsFile([NavigationStart |-> 0, DomContentLoaded |-> 7,
                                FirstMeaningfulPaint |-> 22,
                                JSHeapTotalSize |-> 1000, JSHeapUsedSize |-> 500])}}

\* an object is created in the metrics bucket, under a name not used before
create_object ==
  \E upload \in Uploads :
    LET name == ObjectName(Cardinality(DOMAIN objects) + 1) IN
    /\ Cardinality(DOMAIN objects) < MaxObjects
    /\ objects' = objects @@ (name :> upload)
    /\ storage_events' =
         storage_events
           \cup {TriggerData(METRICS_BUCKET, name, clock, upload.metadata)}
    /\ UNCHANGED <<environ, clock, documents, document_events, published, last,
                   input_file, test_result>>

OtherDocuments == {<<"page-metrics", ObjectName(1)>>}

OtherStatuses == {"FAILED"}

\* another client of the database creates a document in the collection
write_document ==
  \E path \in OtherDocuments, status \in OtherStatuses :
    /\ path \notin DOMAIN documents
    /\ documents' = documents @@ (path :> [status |-> status])
    /\ document_events' =
         document_events \cup {DocumentEvent(path, [status |-> status])}
    /\ UNCHANGED <<environ, clock, objects, storage_events, published,
                   last, input_file, test_result>>

----------------------------------------------------------------------------
(* Specifications *)

NoCall == [fn |-> "none"]

Init ==
  /\ environ \in Environments
  /\ clock \in Instants
  /\ objects = EmptyDict
  /\ storage_events = {}
  /\ documents = EmptyDict
  /\ document_events = {}
  /\ published = EmptyBag
  /\ last = NoCall
  /\ input_file = NotJson
  /\ test_result = NoTest

Next ==
  \/ create_object
  \/ analyze
  \/ write_document
  \/ generate_alert

\* the functions deployed with their triggers
Spec == Init /\ [][Next]_vars

\* the platform delivers every event it holds
FairSpec == Spec /\ WF_vars(analyze) /\ WF_vars(generate_alert)

UnitInit ==
  /\ environ = [GCP_PROJECT |-> "my-project", ALERT_TOPIC |-> "alerts"]
  /\ clock \in Instants
  /\ objects = EmptyDict
  /\ storage_events = {}
  /\ documents = EmptyDict
  /\ document_events = {}
  /\ published = EmptyBag
  /\ last = NoCall
  /\ input_file \in Payloads
  /\ test_result = NoTest

UnitNext ==
  \/ test_parse_metrics
  \/ test_analyze_metrics

\* the unit tests of the parse block, run on every payload
UnitSpec == UnitInit /\ [][UnitNext]_vars

----------------------------------------------------------------------------
(* Properties of the parse block, under UnitSpec *)

ParseTested == test_result.test = "parse_metrics"

AnalyzeTested == test_result.test = "analyze_metrics"

HasMetrics(text) == text.json /\ "metrics" \in DOMAIN text.object

SamplesIn(text) == IF HasMetrics(text) THEN text.object["metrics"] ELSE <<>>

NamesIn(text) == {SamplesIn(text)[i].name : i \in DOMAIN SamplesIn(text)}

HasAllRequired(text) == HasMetrics(text) /\ Required \subseteq NamesIn(text)

\* the value of the sample called name that no other sample called name follows
LastValue(text, name) ==
  LET s == SamplesIn(text)
      i == CHOOSE j \in DOMAIN s :
             s[j].name = name /\ \A k \in DOMAIN s : k > j => s[k].name # name
  IN s[i].value

\* q is num / den with the fraction dropped, whatever the sign of num
IsTruncated(q, num, den) ==
  /\ Abs(q) * den <= Abs(num)
  /\ Abs(num) < (Abs(q) + 1) * den
  /\ q * num >= 0

\* the milliseconds between NavigationStart and the event, as an exact fraction
ExactMillisTimesScale(text, event) ==
  (LastValue(text, event) - LastValue(text, "NavigationStart")) * 1000

\* C1: the record analyze_metrics returns has status "FAIL" exactly when its
\* metrics.FirstMeaningfulPaint is strictly greater than the threshold and "PASS"
\* otherwise (so also when they are equal); status is never anything else, and a
\* record is returned for every valid payload and event.
C1_StatusIffAboveThreshold ==
  AnalyzeTested =>
    /\ (HasAllRequired(input_file) /\ "metadata" \in DOMAIN test_result.data)
         => ~Raised(test_result.ret)
    /\ ~Raised(test_result.ret) =>
         LET record == test_result.ret.val
             paint  == record.metrics.FirstMeaningfulPaint
         IN /\ record.status \in {"PASS", "FAIL"}
            /\ record.status = "FAIL" <=> paint > test_result.max_time
            /\ record.status = "PASS" <=> paint <= test_result.max_time

C1_Witness ==
  /\ AnalyzeTested
  /\ ~Raised(test_result.ret)
  /\ test_result.ret.val.metrics.FirstMeaningfulPaint = test_result.max_time
  /\ test_result.ret.val.status = "PASS"

\* C2: for a payload whose samples include all five required names, parse_metrics
\* returns a mapping with exactly the keys DomContentLoaded, FirstMeaningfulPaint,
\* JSHeapTotalSize and JSHeapUsedSize; the heap sizes are the sample values
\* unchanged and each timing is (event - NavigationStart) * 1000 truncated toward
\* zero, also when the difference is negative.
C2_ParsedMapping ==
  (ParseTested /\ HasAllRequired(input_file)) =>
    /\ ~Raised(test_result.ret)
    /\ LET parsed == test_result.ret.val IN
       /\ DOMAIN parsed = {"DomContentLoaded", "FirstMeaningfulPaint",
                           "JSHeapTotalSize", "JSHeapUsedSize"}
       /\ parsed.JSHeapTotalSize = LastValue(input_file, "JSHeapTotalSize")
       /\ parsed.JSHeapUsedSize = LastValue(input_file, "JSHeapUsedSize")
       /\ IsTruncated(parsed.DomContentLoaded,
                      ExactMillisTimesScale(input_file, "DomContentLoaded"), Scale)
       /\ IsTruncated(parsed.FirstMeaningfulPaint,
                      ExactMillisTimesScale(input_file, "FirstMeaningfulPaint"), Scale)

\* a negative difference that is no whole number of milliseconds
C2_Witness ==
  /\ ParseTested
  /\ HasAllRequired(input_file)
  /\ ExactMillisTimesScale(input_file, "FirstMeaningfulPaint") < 0
  /\ ExactMillisTimesScale(input_file, "FirstMeaningfulPaint") % Scale # 0
  /\ test_result.ret.val.FirstMeaningfulPaint = 0

MissingRequired(text) == HasMetrics(text) /\ ~(Required \subseteq NamesIn(text))

\* C3, as claimed: parse_metrics fails with one and the same error kind, the one
\* raised for an absent sample name, when the payload is not valid JSON, when it
\* has no metrics field and when a required sample name is absent.
C3_SameErrorKind ==
  (ParseTested /\ (~input_file.json \/ ~HasMetrics(input_file)
                     \/ MissingRequired(input_file))) =>
    /\ Raised(test_result.ret)
    /\ test_result.ret.exc = "KeyError"

\* C3, amended: parse_metrics returns no mapping in any of the three cases; the
\* payload that is not valid JSON raises json's JSONDecodeError, and only the
\* payload without a metrics field and the payload without a required sample
\* name raise the same kind, KeyError.
C3_ParseErrors ==
  ParseTested =>
    /\ ~input_file.json =>
         Raised(test_result.ret) /\ test_result.ret.exc = "JSONDecodeError"
    /\ (input_file.json /\ ~HasMetrics(input_file)) =>
         Raised(test_result.ret) /\ test_result.ret.exc = "KeyError"
    /\ MissingRequired(input_file) =>
         Raised(test_result.ret) /\ test_result.ret.exc = "KeyError"

C3_Witness ==
  /\ ParseTested
  /\ ~input_file.json
  /\ test_result.ret = Raise("JSONDecodeError")

\* C7: the record analyze_metrics returns has input_file "gs://" + bucket + "/" +
\* name, page_url the event's metadata.pageUrl, fetch_timestamp the event's
\* timeCreated, and metrics the result of parse_metrics on the same payload.
C7_RecordCopiesEvent ==
  (AnalyzeTested /\ ~Raised(test_result.ret)) =>
    LET record == test_result.ret.val
        data   == test_result.data
    IN /\ record.input_file = "gs://" \o data.bucket \o "/" \o data.name
       /\ record.page_url = data.metadata.pageUrl
       /\ record.fetch_timestamp = data.timeCreated
       /\ record.metrics = parse_metrics(input_file).val

C7_Witness ==
  /\ AnalyzeTested
  /\ ~Raised(test_result.ret)
  /\ test_result.data.bucket = "gcsBucket"
  /\ test_result.data.name = "gcsObjectName"
  /\ test_result.ret.val.input_file = "gs://gcsBucket/gcsObjectName"
  /\ test_result.ret.val.fetch_timestamp = "2019-03-07 00:00:00Z"

HasDuplicate(text) ==
  \E i, j \in DOMAIN SamplesIn(text) :
    i < j /\ SamplesIn(text)[i].name = SamplesIn(text)[j].name

RECURSIVE Pick(_, _, _)
Pick(s, keep, i) ==
  IF i > Len(s) THEN <<>>
  ELSE (IF i \in keep THEN <<s[i]>> ELSE <<>>) \o Pick(s, keep, i + 1)

\* the samples without those that a later sample of the same name follows
WithoutEarlier(s) ==
  Pick(s, {i \in DOMAIN s : \A k \in DOMAIN s : k > i => s[k].name # s[i].name}, 1)

\* C10: when a name occurs more than once among the samples, parse_metrics
\* computes with the value of its last occurrence, for NavigationStart as the base
\* of both timings too, and the earlier occurrences change nothing in the result.
C10_LastWriteWins ==
  (ParseTested /\ HasDuplicate(input_file)) =>
    /\ test_result.ret =
         parse_metrics(Text([metrics |-> WithoutEarlier(SamplesIn(input_file))]))
    /\ ~Raised(test_result.ret) =>
         LET parsed == test_result.ret.val
             start  == LastValue(input_file, "NavigationStart")
         IN /\ parsed.JSHeapTotalSize = LastValue(input_file, "JSHeapTotalSize")
            /\ parsed.JSHeapUsedSize = LastValue(input_file, "JSHeapUsedSize")
            /\ IsTruncated(
                 parsed.DomContentLoaded,
                 (LastValue(input_file, "DomContentLoaded") - start) * 1000, Scale)
            /\ IsTruncated(
                 parsed.FirstMeaningfulPaint,
                 (LastValue(input_file, "FirstMeaningfulPaint") - start) * 1000,
                 Scale)

\* NavigationStart given twice, with two values
C10_Witness ==
  /\ ParseTested
  /\ ~Raised(test_result.ret)
  /\ \E i, j \in DOMAIN SamplesIn(input_file) :
       /\ i < j
       /\ SamplesIn(input_file)[i].name = "NavigationStart"
       /\ SamplesIn(input_file)[j].name = "NavigationStart"
       /\ SamplesIn(input_file)[i].value # SamplesIn(input_file)[j].value
       /\ SamplesIn(input_file)[i].value = 7

----------------------------------------------------------------------------
(* Properties of the deployed functions, under Spec and FairSpec *)

Analyzed == last.fn = "analyze"

\* this step is the delivery of data to analyze
AnalyzeStep(data) ==
  /\ data \in storage_events
  /\ storage_events' = storage_events \ {data}
  /\ last'.fn = "analyze"
  /\ last'.data = data

ThresholdAbsent == "MAX_TIME_MEANINGFUL_PAINT" \notin DOMAIN environ

CollectionAbsent == "METRICS_COLLECTION" \notin DOMAIN environ

\* MAX_TIME_MEANINGFUL_PAINT is set, to a string of decimal digits
ThresholdInteger ==
  /\ ~ThresholdAbsent
  /\ \A i \in 1..Len(environ["MAX_TIME_MEANINGFUL_PAINT"]) :
       SubSeq(environ["MAX_TIME_MEANINGFUL_PAINT"], i, i)
         \in {"0", "1", "2", "3", "4", "5", "6", "7", "8", "9"}

RecordFields ==
  {"metrics", "input_file", "page_url", "fetch_timestamp", "analysis_timestamp",
   "status"}

Complete(document) ==
  /\ DOMAIN document = RecordFields
  /\ document.status \in {"PASS", "FAIL"}

\* the document is an analysis record, whole or in part
IsAnalysis(document) == "input_file" \in DOMAIN document

\* C4: an invocation of analyze either persists exactly one complete record (all
\* six fields, status PASS or FAIL) or raises and leaves the document store as it
\* was; a failed download, threshold lookup or parse is raised, never swallowed,
\* no call is made twice, and no record with a missing field is persisted.
C4_CompleteRecordOrError ==
  [][\A data \in storage_events :
       AnalyzeStep(data) =>
         /\ \/ /\ last'.exc = None
               /\ \E path \in DOMAIN documents' \ DOMAIN documents :
                    /\ DOMAIN documents' = DOMAIN documents \cup {path}
                    /\ \A p \in DOMAIN documents : documents'[p] = documents[p]
                    /\ Complete(documents'[path])
            \/ /\ last'.exc # None
               /\ documents' = documents
         /\ ( \/ Raised(last'.page_metrics)
              \/ Raised(int_of_str(environ_get("MAX_TIME_MEANINGFUL_PAINT")))
              \/ /\ ~Raised(last'.page_metrics)
                 /\ Raised(parse_metrics(last'.page_metrics.val)) )
              => (last'.exc # None /\ documents' = documents)
         /\ \A i, j \in DOMAIN last'.calls :
              i # j => last'.calls[i] # last'.calls[j]
    ]_vars

\* a parse failure raised, next to a record persisted by another invocation
C4_Witness ==
  /\ Analyzed
  /\ ~Raised(last.page_metrics)
  /\ Raised(parse_metrics(last.page_metrics.val))
  /\ last.exc # None
  /\ \E path \in DOMAIN documents : Complete(documents[path])

\* C6: a successful invocation of analyze writes exactly one document, to the
\* collection METRICS_COLLECTION names, under the id data['name'], with the record
\* analyze_metrics returned for the event as content; no other id is written.
C6_DocumentUnderObjectName ==
  [][\A data \in storage_events :
       (AnalyzeStep(data) /\ last'.exc = None) =>
         LET path   == <<environ["METRICS_COLLECTION"], data.name>>
             record == analyze_metrics(
                         data, last'.page_metrics.val,
                         int_of_str(environ["MAX_TIME_MEANINGFUL_PAINT"]).val, clock)
         IN /\ path \notin DOMAIN documents
            /\ ~Raised(record)
            /\ documents' = documents @@ (path :> record.val)
    ]_vars

C6_Witness ==
  /\ Analyzed
  /\ last.exc = None
  /\ <<"page-metrics", last.data.name>> \in DOMAIN documents
  /\ documents[<<"page-metrics", last.data.name>>].input_file
       = "gs://metrics/" \o last.data.name

CallsMade == {last.calls[i] : i \in DOMAIN last.calls}

NothingPersisted == \A path \in DOMAIN documents : ~IsAnalysis(documents[path])

\* C8, as claimed: with MAX_TIME_MEANINGFUL_PAINT or METRICS_COLLECTION absent,
\* analyze fails before the object is downloaded, before the metrics are parsed
\* and before a document is persisted.
C8_FailsBeforeAnyComputation ==
  (Analyzed /\ (ThresholdAbsent \/ CollectionAbsent)) =>
    /\ last.exc # None
    /\ "get_gcs_file_contents" \notin CallsMade
    /\ "analyze_metrics" \notin CallsMade
    /\ NothingPersisted

\* C8, amended: with MAX_TIME_MEANINGFUL_PAINT absent, analyze fails (TypeError
\* of int(None)) after the download of the object, which is its first call, and
\* before the metrics are parsed or a document is persisted; with only
\* METRICS_COLLECTION absent (the threshold set to an integer) it fails inside
\* persist, after the download and the analysis; in both cases no document is
\* persisted.
C8_FailsAfterDownload ==
  Analyzed =>
    /\ ThresholdAbsent =>
         /\ last.exc # None
         /\ last.calls[1] = "get_gcs_file_contents"
         /\ "analyze_metrics" \notin CallsMade
         /\ "persist" \notin CallsMade
         /\ ~Raised(last.page_metrics) =>
              /\ last.exc = "TypeError"
              /\ last.calls = <<"get_gcs_file_contents", "os.environ.get">>
    /\ (~ThresholdAbsent /\ CollectionAbsent) =>
         /\ last.exc # None
         /\ last.calls[1] = "get_gcs_file_contents"
         /\ (ThresholdInteger
               /\ ~Raised(last.page_metrics)
               /\ ~Raised(analyze_metrics(last.data, last.page_metrics.val, 0, clock)))
              => /\ last.exc = "AttributeError"
                 /\ last.calls = <<"get_gcs_file_contents", "os.environ.get",
                                   "analyze_metrics", "persist">>
    /\ (ThresholdAbsent \/ CollectionAbsent) => NothingPersisted

C8_Witness ==
  /\ Analyzed
  /\ ThresholdAbsent
  /\ ~Raised(last.page_metrics)
  /\ last.exc = "TypeError"
  /\ last.calls = <<"get_gcs_file_contents", "os.environ.get">>

\* this step is the delivery of data to generate_alert
AlertStep(data) ==
  /\ data \in document_events
  /\ document_events' = document_events \ {data}
  /\ last'.fn = "generate_alert"
  /\ last'.data = data

StatusOf(data) == data.value.fields.status.stringValue

\* the one message the alerter is to publish for data
AlertFor(data) ==
  [topic |-> "projects/" \o environ["GCP_PROJECT"] \o "/topics/"
               \o environ["ALERT_TOPIC"],
   data  |-> json_dumps_encode(data.value)]

PublishedOnce(data) ==
  /\ published' = published (+) SetToBag({AlertFor(data)})
  /\ decode_json_loads(AlertFor(data).data) = Return(data.value)

\* C5, as claimed: generate_alert publishes exactly one message, the JSON
\* encoding of the document value, to projects/<GCP_PROJECT>/topics/<ALERT_TOPIC>
\* when the status is "FAIL", and publishes nothing for any other status.
C5_PublishesIffStatusIsFail ==
  [][\A data \in document_events :
       AlertStep(data) =>
         IF StatusOf(data) = "FAIL"
           THEN PublishedOnce(data)
           ELSE published' = published
    ]_vars

\* C5, amended: generate_alert publishes exactly one message, the JSON encoding
\* of the document value, to projects/<GCP_PROJECT>/topics/<ALERT_TOPIC> when the
\* status contains "FAIL" (so for "FAIL", and for "FAILED" too), and publishes
\* nothing when the status does not contain it, in particular for "PASS".
C5_PublishesIffStatusContainsFail ==
  [][\A data \in document_events :
       AlertStep(data) =>
         IF \E i \in 1..(Len(StatusOf(data)) - 3) :
              SubSeq(StatusOf(data), i, i + 3) = "FAIL"
           THEN PublishedOnce(data)
           ELSE published' = published
    ]_vars

C5_Witness ==
  /\ last.fn = "generate_alert"
  /\ StatusOf(last.data) = "FAIL"
  /\ CopiesIn(AlertFor(last.data), published) = 1
  /\ \E path \in DOMAIN documents : documents[path].status = "PASS"

PendingFor(name) == \E data \in storage_events : data.name = name

AnalyzedNow(name) == Analyzed /\ last.data.name = name

\* the collection holds the analysis of the object called name
DocumentFor(name) ==
  /\ ~CollectionAbsent
  /\ <<environ["METRICS_COLLECTION"], name>> \in DOMAIN documents
  /\ IsAnalysis(documents[<<environ["METRICS_COLLECTION"], name>>])

\* the FirstMeaningfulPaint of the object called name is above the threshold
ExceedsThreshold(name) ==
  /\ name \in DOMAIN objects
  /\ ~ThresholdAbsent
  /\ LET parsed == parse_metrics(objects[name].content)
         paint  == ExactMillisTimesScale(objects[name].content,
                                         "FirstMeaningfulPaint")
     IN /\ ~Raised(parsed)
        /\ paint >= (int_of_str(environ["MAX_TIME_MEANINGFUL_PAINT"]).val + 1) * Scale

\* a message about the analysis of the object called name has been published
AlertedFor(name) ==
  \E m \in BagToSet(published) :
    LET value == decode_json_loads(m.data).val IN
    /\ "input_file" \in DOMAIN value.fields
    /\ value.fields.input_file.stringValue
         = "gs://" \o METRICS_BUCKET \o "/" \o name

\* C9: for every object created in the bucket, with every event delivered: its
\* event reaches analyze and, when analyze completes, a document under the
\* object's name holds status PASS or FAIL; an alert about the object is
\* eventually published when that document exists and the object's
\* FirstMeaningfulPaint is above the threshold, and is never published otherwise.
C9_PipelineEndToEnd ==
  /\ \A k \in 1..MaxObjects :
       /\ PendingFor(ObjectName(k)) ~>
            /\ AnalyzedNow(ObjectName(k))
            /\ last.exc = None =>
                 /\ DocumentFor(ObjectName(k))
                 /\ documents[<<environ["METRICS_COLLECTION"], ObjectName(k)>>].status
                      \in {"PASS", "FAIL"}
       /\ (DocumentFor(ObjectName(k)) /\ ExceedsThreshold(ObjectName(k)))
            ~> AlertedFor(ObjectName(k))
  /\ [](\A k \in 1..MaxObjects :
          AlertedFor(ObjectName(k)) =>
            (DocumentFor(ObjectName(k)) /\ ExceedsThreshold(ObjectName(k))))

\* both functions have run for two objects: one alert, for the slow page only
C9_Witness ==
  /\ storage_events = {}
  /\ document_events = {}
  /\ AlertedFor(ObjectName(1))
  /\ ExceedsThreshold(ObjectName(1))
  /\ DocumentFor(ObjectName(2))
  /\ ~ExceedsThreshold(ObjectName(2))
  /\ ~AlertedFor(ObjectName(2))
  /\ documents[<<"page-metrics", ObjectName(2)>>].status = "PASS"

====
